---- MODULE Spec2Model ----
(***************************************************************************)
(* The uuid resolver of meilisearch-http (index_controller/uuid_resolver.rs)*)
(* as a state machine: callers holding a UuidResolverHandle enqueue        *)
(* UuidResolveMsg messages into the actor's inbox, the actor task          *)
(* (UuidResolverActor::run) takes them one at a time, runs the handler     *)
(* against the HeedUuidStore and answers on the message's oneshot channel. *)
(*                                                                         *)
(* A name (String) is the sequence of its characters' code points, a Uuid  *)
(* is a natural number, a stored value is the sequence of the 16 bytes of  *)
(* the Uuid, an Option is a sequence of length 0 or 1, a Result is a       *)
(* record [tag, val] with tag "Ok" or the name of the UuidError variant.   *)
(***************************************************************************)
EXTENDS Integers, Sequences, FiniteSets, TLC

VARIABLES
    store,   \* HeedUuidStore.db: the name -> 16 byte value table
    inbox,   \* the mpsc channel: messages sent and not yet received
    apc,     \* where the actor task is: "recv" (inbox.recv().await), "handle",
             \* "exited" (the loop was left) or "killed" (the task was aborted)
    cur,     \* the message the actor took from the inbox and is handling
    pc,      \* pc[c]: where caller c is: "idle", "send" (sender.send(msg).await on
             \* a full channel), "await" (receiver.await), "cancelled" (its call
             \* was dropped while it awaited), "panicked" (the expect failed) or
             \* "gone" (its handle is dropped)
    outbox,  \* outbox[c]: the message caller c is suspended with in "send"
    ret,     \* ret[c]: the oneshot channel of caller c's call (an Option)
    minted,  \* the Uuids Uuid::new_v4 has produced so far
    calls,   \* number of handle calls made so far
    hist     \* the requests the actor has handled, in order: each with its place
             \* in the order of sending (id), the table it found (db), the reply
             \* sent, what its transaction became and whether the receiver of
             \* the reply was still there (heard)

vars == <<store, inbox, apc, cur, pc, outbox, ret, minted, calls, hist>>

----------------------------------------------------------------------------
(* Bounds of the model. *)

\* number of tasks that hold a clone of the handle
NumCallers == 2
\* number of handle calls in one run
MaxCalls == 4
\* number of values Uuid::new_v4 may produce in one run
NumMint == 3
\* number of handle calls in one run of a specification with fairness
LiveCalls == 2

(* Program constants. *)

\* mpsc::channel(100)
ChannelCapacity == 100
\* a Uuid is 16 bytes (Uuid::as_bytes, Uuid::from_slice)
UuidBytes == 16

Callers == 1..NumCallers
MintPool == 1..NumMint
\* two Uuids that callers bring from outside (a snapshot, a dump)
UuidX == NumMint + 1
UuidY == NumMint + 2

----------------------------------------------------------------------------
(* Names. *)

NameA == <<97>>
NameB == <<98>>
NameC == <<99>>
EmptyName == <<>>
\* "bad name!"
BadName == <<98, 97, 100, 32, 110, 97, 109, 101, 33>>
\* "A-z_9"
MixedName == <<65, 45, 122, 95, 57>>

(* Option and Result. *)

None == <<>>
Some(x) == <<x>>
Ok(x) == [tag |-> "Ok", val |-> x]
Err(e, x) == [tag |-> e, val |-> x]
Unit == <<>>

----------------------------------------------------------------------------
(* char::is_ascii_alphanumeric *)
is_ascii_alphanumeric(x) ==
    \/ (48 <= x /\ x <= 57)
    \/ (65 <= x /\ x <= 90)
    \/ (97 <= x /\ x <= 122)

(* is_index_uid_valid: every character is an ASCII letter or digit, '-' or '_' *)
\* is_index_uid_valid with any in place of all
is_index_uid_valid_any(uid) ==
    \E i \in 1..Len(uid) :
        is_ascii_alphanumeric(uid[i]) \/ uid[i] = 45 \/ uid[i] = 95

is_index_uid_valid(uid) ==
    \A i \in 1..Len(uid) :
        is_ascii_alphanumeric(uid[i]) \/ uid[i] = 45 \/ uid[i] = 95

----------------------------------------------------------------------------
(* Uuid <-> bytes. *)

RECURSIVE be_bytes(_, _)
be_bytes(u, k) ==
    IF k = 0 THEN <<>> ELSE Append(be_bytes(u \div 256, k - 1), u % 256)

(* Uuid::as_bytes: the 16 bytes of the Uuid, most significant first *)
as_bytes(uuid) == be_bytes(uuid, UuidBytes)

RECURSIVE be_value(_, _)
be_value(b, k) ==
    IF k = 0 THEN 0 ELSE be_value(b, k - 1) * 256 + b[k]

(* Uuid::from_slice: fails unless the slice is 16 bytes long *)
from_slice(b) ==
    IF Len(b) # UuidBytes THEN Err("Uuid", Unit) ELSE Ok(be_value(b, Len(b)))

----------------------------------------------------------------------------
(* The heed database: a table from keys to values, iterated in key order. *)

db_get(db, key) == IF key \in DOMAIN db THEN Some(db[key]) ELSE None

\* db_put into a table that forgets its other entries
db_put_alone(db, key, value) == [k \in {key} |-> value]

db_put(db, key, value) ==
    [k \in (DOMAIN db) \cup {key} |-> IF k = key THEN value ELSE db[k]]

db_delete(db, key) == [k \in (DOMAIN db) \ {key} |-> db[k]]

\* memcmp order of the keys, the shorter first when one is a prefix of the other
RECURSIVE key_less(_, _)
key_less(a, b) ==
    IF a = <<>> THEN b # <<>>
    ELSE IF b = <<>> THEN FALSE
    ELSE IF a[1] # b[1] THEN a[1] < b[1]
    ELSE key_less(Tail(a), Tail(b))

RECURSIVE keys_in_order(_)
keys_in_order(ks) ==
    IF ks = {} THEN <<>>
    ELSE LET m == CHOOSE k \in ks : \A o \in ks \ {k} : key_less(k, o)
         IN <<m>> \o keys_in_order(ks \ {m})

db_iter(db) == [i \in 1..Cardinality(DOMAIN db) |->
                   <<keys_in_order(DOMAIN db)[i], db[keys_in_order(DOMAIN db)[i]]>>]

EmptyDb == [k \in {} |-> <<>>]

----------------------------------------------------------------------------
(* HeedUuidStore: each operation is one transaction on the worker pool.    *)
(* The value is [res, db, txn]: the Result, the table afterwards and what  *)
(* became of the transaction ("read", "commit", or "abort" for a write     *)
(* transaction dropped without commit).                                    *)

\* create_uuid that draws a second Uuid for its result
create_uuid_remint(db, name, err, fresh) ==
    LET got == db_get(db, name) IN
    IF got # None
    THEN IF err
         THEN [res |-> Err("NameAlreadyExist", Unit), db |-> db, txn |-> "abort"]
         ELSE [res |-> from_slice(got[1]), db |-> db, txn |-> "abort"]
    ELSE [res |-> Ok((fresh % NumMint) + 1), db |-> db_put(db, name, as_bytes(fresh)),
          txn |-> "commit"]

\* create_uuid that writes without looking the name up
create_uuid_overwrite(db, name, err, fresh) ==
    [res |-> Ok(fresh), db |-> db_put(db, name, as_bytes(fresh)), txn |-> "commit"]

create_uuid(db, name, err, fresh) ==
    LET got == db_get(db, name) IN
    IF got # None
    THEN IF err
         THEN [res |-> Err("NameAlreadyExist", Unit), db |-> db, txn |-> "abort"]
         ELSE [res |-> from_slice(got[1]), db |-> db, txn |-> "abort"]
    ELSE [res |-> Ok(fresh), db |-> db_put(db, name, as_bytes(fresh)),
          txn |-> "commit"]

get_uuid(db, name) ==
    LET got == db_get(db, name) IN
    IF got # None
    THEN LET uuid == from_slice(got[1]) IN
         IF uuid.tag = "Ok"
         THEN [res |-> Ok(Some(uuid.val)), db |-> db, txn |-> "read"]
         ELSE [res |-> uuid, db |-> db, txn |-> "read"]
    ELSE [res |-> Ok(None), db |-> db, txn |-> "read"]

\* delete that drops its transaction without commit
delete_no_commit(db, uid) ==
    LET got == db_get(db, uid) IN
    IF got # None
    THEN LET uuid == from_slice(got[1]) IN
         IF uuid.tag = "Ok"
         THEN [res |-> Ok(Some(uuid.val)), db |-> db, txn |-> "abort"]
         ELSE [res |-> uuid, db |-> db, txn |-> "abort"]
    ELSE [res |-> Ok(None), db |-> db, txn |-> "abort"]

delete(db, uid) ==
    LET got == db_get(db, uid) IN
    IF got # None
    THEN LET uuid == from_slice(got[1]) IN
         IF uuid.tag = "Ok"
         THEN [res |-> Ok(Some(uuid.val)), db |-> db_delete(db, uid),
               txn |-> "commit"]
         ELSE [res |-> uuid, db |-> db, txn |-> "abort"]
    ELSE [res |-> Ok(None), db |-> db, txn |-> "abort"]

\* list that leaves the loop after the first entry
list_first_only(db) ==
    LET it == db_iter(db) IN
    IF it = <<>> THEN [res |-> Ok(<<>>), db |-> db, txn |-> "read"]
    ELSE IF from_slice(it[1][2]).tag # "Ok"
         THEN [res |-> from_slice(it[1][2]), db |-> db, txn |-> "read"]
         ELSE [res |-> Ok(<< <<it[1][1], from_slice(it[1][2]).val>> >>), db |-> db,
               txn |-> "read"]

list(db) ==
    LET it == db_iter(db)
        bad == {i \in 1..Len(it) : from_slice(it[i][2]).tag # "Ok"}
    IN IF bad # {}
       THEN [res |-> from_slice(it[CHOOSE i \in bad : \A j \in bad : i <= j][2]),
             db |-> db, txn |-> "read"]
       ELSE [res |-> Ok([i \in 1..Len(it) |-> <<it[i][1], from_slice(it[i][2]).val>>]),
             db |-> db, txn |-> "read"]

\* insert that keeps the entry a name already has
insert_if_absent(db, name, uuid) ==
    IF db_get(db, name) # None
    THEN [res |-> Ok(Unit), db |-> db, txn |-> "abort"]
    ELSE [res |-> Ok(Unit), db |-> db_put(db, name, as_bytes(uuid)), txn |-> "commit"]

insert(db, name, uuid) ==
    [res |-> Ok(Unit), db |-> db_put(db, name, as_bytes(uuid)), txn |-> "commit"]

----------------------------------------------------------------------------
(* UuidResolverActor: the handlers. *)

\* handle_create that passes err = false to the store
handle_create_lenient(db, uid, fresh) ==
    IF ~is_index_uid_valid(uid)
    THEN [res |-> Err("BadlyFormatted", uid), db |-> db, txn |-> "none"]
    ELSE create_uuid(db, uid, FALSE, fresh)

handle_create(db, uid, fresh) ==
    IF ~is_index_uid_valid(uid)
    THEN [res |-> Err("BadlyFormatted", uid), db |-> db, txn |-> "none"]
    ELSE create_uuid(db, uid, TRUE, fresh)

\* handle_get that answers a missing name with the nil Uuid
handle_get_default(db, uid) ==
    LET r == get_uuid(db, uid) IN
    IF r.res.tag # "Ok" THEN r
    ELSE IF r.res.val = None
         THEN [r EXCEPT !.res = Ok(0)]
         ELSE [r EXCEPT !.res = Ok(r.res.val[1])]

handle_get(db, uid) ==
    LET r == get_uuid(db, uid) IN
    IF r.res.tag # "Ok" THEN r
    ELSE IF r.res.val = None
         THEN [r EXCEPT !.res = Err("UnexistingIndex", uid)]
         ELSE [r EXCEPT !.res = Ok(r.res.val[1])]

handle_delete(db, uid) ==
    LET r == delete(db, uid) IN
    IF r.res.tag # "Ok" THEN r
    ELSE IF r.res.val = None
         THEN [r EXCEPT !.res = Err("UnexistingIndex", uid)]
         ELSE [r EXCEPT !.res = Ok(r.res.val[1])]

handle_list(db) == list(db)

handle_insert(db, uid, uuid) ==
    IF ~is_index_uid_valid(uid)
    THEN [res |-> Err("BadlyFormatted", uid), db |-> db, txn |-> "none"]
    ELSE insert(db, uid, uuid)

(* Uuid::new_v4: a random Uuid; the values it may return now. Two draws are *)
(* taken never to collide, nor to hit a Uuid a caller brought from outside. *)
new_v4 == MintPool \ minted

----------------------------------------------------------------------------
(* The state after UuidResolverHandle::new on an empty directory. *)

NoMsg == [op |-> "None", name |-> <<>>, uuid |-> 0, ret |-> 0, id |-> 0]

Init ==
    /\ store = EmptyDb
    /\ inbox = <<>>
    /\ apc = "recv"
    /\ cur = NoMsg
    /\ pc = [c \in Callers |-> "idle"]
    /\ outbox = [c \in Callers |-> NoMsg]
    /\ ret = [c \in Callers |-> None]
    /\ minted = {}
    /\ calls = 0
    /\ hist = <<>>

----------------------------------------------------------------------------
(* UuidResolverHandle: a call makes the oneshot channel, sends the message  *)
(* and then awaits the reply.                                               *)

\* the channel is open while the actor task holds the receiver
Open == apc \in {"recv", "handle"}

\* the messages that have entered the channel so far
Entered == Len(hist) + (IF apc = "handle" THEN 1 ELSE 0) + Len(inbox)

\* the message as it enters the channel: the n-th message to enter
Stamp(msg, n) ==
    [op |-> msg.op, name |-> msg.name, uuid |-> msg.uuid, ret |-> msg.ret, id |-> n]

\* send that queues the message on an open channel whether or not it has room
send_unbounded(c, msg) ==
    /\ pc[c] = "idle"
    /\ calls < MaxCalls
    /\ calls' = calls + 1
    /\ ret' = [ret EXCEPT ![c] = None]
    /\ pc' = [pc EXCEPT ![c] = "await"]
    /\ outbox' = outbox
    /\ inbox' = IF Open THEN Append(inbox, Stamp(msg, Entered + 1)) ELSE inbox
    /\ UNCHANGED <<store, apc, cur, minted, hist>>

\* self.sender.send(msg).await up to where the call first waits: on an open
\* channel with room the message is queued at once and the call goes on to
\* receiver.await; on a full channel the sender is suspended with its message;
\* on a closed channel send returns an error that `let _ =` drops together
\* with the message, and the call goes on to receiver.await
send(c, msg) ==
    /\ pc[c] = "idle"
    /\ calls < MaxCalls
    /\ calls' = calls + 1
    /\ ret' = [ret EXCEPT ![c] = None]
    /\ IF Open /\ Len(inbox) >= ChannelCapacity
       THEN /\ pc' = [pc EXCEPT ![c] = "send"]
            /\ outbox' = [outbox EXCEPT ![c] = Stamp(msg, 0)]
            /\ inbox' = inbox
       ELSE /\ pc' = [pc EXCEPT ![c] = "await"]
            /\ outbox' = outbox
            /\ inbox' = IF Open THEN Append(inbox, Stamp(msg, Entered + 1)) ELSE inbox
    /\ UNCHANGED <<store, apc, cur, minted, hist>>

\* a suspended sender goes on: the channel has room and takes the message, or
\* the channel was closed and send returns the error that `let _ =` drops
send_resume(c) ==
    /\ pc[c] = "send"
    /\ ~Open \/ Len(inbox) < ChannelCapacity
    /\ inbox' = IF Open THEN Append(inbox, Stamp(outbox[c], Entered + 1)) ELSE inbox
    /\ outbox' = [outbox EXCEPT ![c] = NoMsg]
    /\ pc' = [pc EXCEPT ![c] = "await"]
    /\ UNCHANGED <<store, apc, cur, ret, minted, calls, hist>>

\* the Create messages made and not yet handled
PendingCreates ==
    Cardinality({i \in 1..Len(inbox) : inbox[i].op = "Create"})
    + Cardinality({c \in Callers : pc[c] = "send" /\ outbox[c].op = "Create"})
    + (IF apc = "handle" /\ cur.op = "Create" THEN 1 ELSE 0)

Handle_get(c, name) ==
    send(c, [op |-> "Get", name |-> name, uuid |-> 0, ret |-> c])

Handle_create(c, name) ==
    /\ Cardinality(minted) + PendingCreates < NumMint
    /\ send(c, [op |-> "Create", name |-> name, uuid |-> 0, ret |-> c])

Handle_delete(c, name) ==
    send(c, [op |-> "Delete", name |-> name, uuid |-> 0, ret |-> c])

Handle_list(c) ==
    send(c, [op |-> "List", name |-> <<>>, uuid |-> 0, ret |-> c])

Handle_insert(c, name, uuid) ==
    send(c, [op |-> "Insert", name |-> name, uuid |-> uuid, ret |-> c])

\* receiver.await: the call returns ret[c][1], what the actor sent on the oneshot
\* channel
receiver_await(c) ==
    /\ pc[c] = "await"
    /\ ret[c] # None
    /\ ret' = [ret EXCEPT ![c] = None]
    /\ pc' = [pc EXCEPT ![c] = "idle"]
    /\ UNCHANGED <<store, inbox, apc, cur, outbox, minted, calls, hist>>

\* the caller's task drops the call while it is suspended in receiver.await (a
\* timeout around the call, say): the oneshot receiver goes with it, and with it
\* a reply that was sent and not yet taken. The task takes no further part.
drop_receiver(c) ==
    /\ pc[c] = "await"
    /\ ret' = [ret EXCEPT ![c] = None]
    /\ pc' = [pc EXCEPT ![c] = "cancelled"]
    /\ UNCHANGED <<store, inbox, apc, cur, outbox, minted, calls, hist>>

\* the oneshot sender of caller c's call is alive: its message is in the channel
\* or in the hands of the actor
Pending(c) ==
    \/ \E i \in 1..Len(inbox) : inbox[i].ret = c
    \/ apc = "handle" /\ cur.ret = c

\* receiver_closed that returns to the caller as if a reply had come
receiver_closed_default(c) ==
    /\ pc[c] = "await"
    /\ ret[c] = None
    /\ ~Pending(c)
    /\ pc' = [pc EXCEPT ![c] = "idle"]
    /\ UNCHANGED <<store, inbox, apc, cur, outbox, ret, minted, calls, hist>>

\* receiver.await returns an error because the oneshot sender was dropped with
\* no reply sent: expect("Uuid resolver actor has been killed") panics
receiver_closed(c) ==
    /\ pc[c] = "await"
    /\ ret[c] = None
    /\ ~Pending(c)
    /\ pc' = [pc EXCEPT ![c] = "panicked"]
    /\ UNCHANGED <<store, inbox, apc, cur, outbox, ret, minted, calls, hist>>

\* the task of caller c drops its clone of the handle, and with it one sender
\* of the channel; a call in progress borrows the handle, so this happens
\* between calls or after the call was dropped
drop_handle(c) ==
    /\ pc[c] \in {"idle", "cancelled"}
    /\ pc' = [pc EXCEPT ![c] = "gone"]
    /\ UNCHANGED <<store, inbox, apc, cur, outbox, ret, minted, calls, hist>>

----------------------------------------------------------------------------
(* UuidResolverActor::run: one turn of the loop is inbox.recv().await, then *)
(* the handler of the message's kind and ret.send of its result.            *)

\* run_recv that takes the message sent last
run_recv_last ==
    /\ apc = "recv"
    /\ inbox # <<>>
    /\ cur' = inbox[Len(inbox)]
    /\ inbox' = SubSeq(inbox, 1, Len(inbox) - 1)
    /\ apc' = "handle"
    /\ UNCHANGED <<store, pc, outbox, ret, minted, calls, hist>>

\* run_recv that does not wait for the handler of the message in hand
run_recv_eager ==
    /\ inbox # <<>>
    /\ cur' = Head(inbox)
    /\ inbox' = Tail(inbox)
    /\ apc' = "handle"
    /\ UNCHANGED <<store, pc, outbox, ret, minted, calls, hist>>

run_recv ==
    /\ apc = "recv"
    /\ inbox # <<>>
    /\ cur' = Head(inbox)
    /\ inbox' = Tail(inbox)
    /\ apc' = "handle"
    /\ UNCHANGED <<store, pc, outbox, ret, minted, calls, hist>>

\* the receiver of the oneshot channel of message m is still there
Listening(m) == m.ret \in Callers /\ pc[m.ret] = "await"

\* reply that keeps what the handler wrote only when the reply can be delivered
reply_if_heard(h) ==
    /\ store' = IF Listening(cur) THEN h.db ELSE store
    /\ ret' = IF Listening(cur) THEN [ret EXCEPT ![cur.ret] = Some(h.res)] ELSE ret
    /\ hist' = Append(hist, [op |-> cur.op, name |-> cur.name, uuid |-> cur.uuid,
                             id |-> cur.id, db |-> store, reply |-> h.res,
                             txn |-> h.txn, heard |-> Listening(cur)])
    /\ apc' = "recv"
    /\ cur' = NoMsg
    /\ UNCHANGED <<inbox, pc, outbox, calls>>

\* reply that leaves the loop after a result that is an error
reply_stop_on_error(h) ==
    /\ store' = h.db
    /\ ret' = IF Listening(cur) THEN [ret EXCEPT ![cur.ret] = Some(h.res)] ELSE ret
    /\ hist' = Append(hist, [op |-> cur.op, name |-> cur.name, uuid |-> cur.uuid,
                             id |-> cur.id, db |-> store, reply |-> h.res,
                             txn |-> h.txn, heard |-> Listening(cur)])
    /\ apc' = IF h.res.tag = "Ok" THEN "recv" ELSE "exited"
    /\ cur' = NoMsg
    /\ UNCHANGED <<inbox, pc, outbox, calls>>

\* reply that sends the handler's result and forgets what the handler wrote
reply_lost_write(h) ==
    /\ store' = store
    /\ ret' = IF Listening(cur) THEN [ret EXCEPT ![cur.ret] = Some(h.res)] ELSE ret
    /\ hist' = Append(hist, [op |-> cur.op, name |-> cur.name, uuid |-> cur.uuid,
                             id |-> cur.id, db |-> store, reply |-> h.res,
                             txn |-> h.txn, heard |-> Listening(cur)])
    /\ apc' = "recv"
    /\ cur' = NoMsg
    /\ UNCHANGED <<inbox, pc, outbox, calls>>

\* let _ = ret.send(h.res), with the store as the handler left it: the send
\* fails, and the failure is dropped, when the receiver is gone
reply(h) ==
    /\ store' = h.db
    /\ ret' = IF Listening(cur) THEN [ret EXCEPT ![cur.ret] = Some(h.res)] ELSE ret
    /\ hist' = Append(hist, [op |-> cur.op, name |-> cur.name, uuid |-> cur.uuid,
                             id |-> cur.id, db |-> store, reply |-> h.res,
                             txn |-> h.txn, heard |-> Listening(cur)])
    /\ apc' = "recv"
    /\ cur' = NoMsg
    /\ UNCHANGED <<inbox, pc, outbox, calls>>

run_Create ==
    /\ apc = "handle"
    /\ cur.op = "Create"
    /\ \E fresh \in new_v4 :
         LET h == handle_create(store, cur.name, fresh) IN
         /\ reply(h)
         /\ minted' = IF h.txn = "commit" THEN minted \cup {fresh} ELSE minted

run_Get ==
    /\ apc = "handle"
    /\ cur.op = "Get"
    /\ reply(handle_get(store, cur.name))
    /\ UNCHANGED minted

run_Delete ==
    /\ apc = "handle"
    /\ cur.op = "Delete"
    /\ reply(handle_delete(store, cur.name))
    /\ UNCHANGED minted

run_List ==
    /\ apc = "handle"
    /\ cur.op = "List"
    /\ reply(handle_list(store))
    /\ UNCHANGED minted

run_Insert ==
    /\ apc = "handle"
    /\ cur.op = "Insert"
    /\ reply(handle_insert(store, cur.name, cur.uuid))
    /\ UNCHANGED minted

\* the handler of msg calls the store: create and insert only after the name
\* passed is_index_uid_valid
reaches_store(msg) ==
    msg.op \in {"Create", "Insert"} => is_index_uid_valid(msg.name)

\* a store operation that fails in the storage layer (env.write_txn, env.read_txn,
\* db.get, db.put, db.delete, db.iter or txn.commit returns an error, or the
\* blocking task cannot be joined): `?` returns the error and the transaction,
\* dropped or not committed, changes nothing
fault(db) == [res |-> Err("Heed", Unit), db |-> db, txn |-> "abort"]

run_Fault ==
    /\ apc = "handle"
    /\ reaches_store(cur)
    /\ reply(fault(store))
    /\ UNCHANGED minted

\* what the handler of msg makes of the table db
handler(msg, db, fresh) ==
    CASE msg.op = "Create" -> handle_create(db, msg.name, fresh)
      [] msg.op = "Get" -> handle_get(db, msg.name)
      [] msg.op = "Delete" -> handle_delete(db, msg.name)
      [] msg.op = "List" -> handle_list(db)
      [] msg.op = "Insert" -> handle_insert(db, msg.name, msg.uuid)

\* the actor task is ended from outside the loop, at an await (the runtime that
\* tokio::spawn put it on shuts down): the inbox is dropped with the messages in
\* it and the message in hand, and with them their oneshot senders. A store
\* operation already on the blocking pool runs to its end or never starts.
kill ==
    /\ Open
    /\ apc' = "killed"
    /\ inbox' = <<>>
    /\ cur' = NoMsg
    /\ IF apc = "handle"
       THEN \E done \in BOOLEAN, fresh \in new_v4 \cup {0} :
               LET h == handler(cur, store, fresh) IN
               /\ cur.op = "Create" <=> fresh # 0
               /\ store' = IF done THEN h.db ELSE store
               /\ minted' = IF done /\ cur.op = "Create" /\ h.txn = "commit"
                            THEN minted \cup {fresh} ELSE minted
       ELSE UNCHANGED <<store, minted>>
    /\ UNCHANGED <<pc, outbox, ret, calls, hist>>

\* run_exit that does not look for messages left in the inbox
run_exit_undrained ==
    /\ apc = "recv"
    /\ \A c \in Callers : pc[c] = "gone"
    /\ apc' = "exited"
    /\ UNCHANGED <<store, inbox, cur, pc, outbox, ret, minted, calls, hist>>

\* inbox.recv() returns None, the channel being empty with every sender
\* dropped: break, and run returns after its warn!
run_exit ==
    /\ apc = "recv"
    /\ inbox = <<>>
    /\ \A c \in Callers : pc[c] = "gone"
    /\ apc' = "exited"
    /\ UNCHANGED <<store, inbox, cur, pc, outbox, ret, minted, calls, hist>>

run == run_recv \/ run_Create \/ run_Get \/ run_Delete \/ run_List \/ run_Insert

----------------------------------------------------------------------------
(* Specifications. The callers cs draw their calls from a set of requests.  *)

Req(op, name, uuid) == [op |-> op, name |-> name, uuid |-> uuid]

call(cs, reqs) ==
    \E c \in cs, r \in reqs :
        \/ r.op = "Create" /\ Handle_create(c, r.name)
        \/ r.op = "Get" /\ Handle_get(c, r.name)
        \/ r.op = "Delete" /\ Handle_delete(c, r.name)
        \/ r.op = "List" /\ Handle_list(c)
        \/ r.op = "Insert" /\ Handle_insert(c, r.name, r.uuid)

await == \E c \in Callers : receiver_await(c)

\* concurrent callers, every operation on one name
RaceReqs ==
    {Req("Create", NameA, 0), Req("Get", NameA, 0), Req("Delete", NameA, 0),
     Req("List", <<>>, 0), Req("Insert", NameA, UuidX)}

Next == call(Callers, RaceReqs) \/ await \/ run

Spec == Init /\ [][Next]_vars

\* one caller, one call after the other: the life of a name, beside a second
\* name and a name that is_index_uid_valid refuses
LifeReqs ==
    {Req("Create", NameA, 0), Req("Get", NameA, 0), Req("Delete", NameA, 0),
     Req("Insert", NameA, UuidX), Req("Insert", NameA, UuidY),
     Req("Create", NameB, 0), Req("List", <<>>, 0),
     Req("Create", BadName, 0), Req("Get", BadName, 0), Req("Delete", BadName, 0)}

NextLife == call({1}, LifeReqs) \/ await \/ run

SpecLife == Init /\ [][NextLife]_vars

\* one caller: three names created, deleted, restored and listed
ListReqs ==
    {Req("Create", NameA, 0), Req("Create", NameB, 0), Req("Create", NameC, 0),
     Req("Delete", NameA, 0), Req("Get", NameB, 0), Req("List", <<>>, 0),
     Req("Insert", NameA, UuidX), Req("Insert", NameB, UuidX)}

NextList == call({1}, ListReqs) \/ await \/ run

SpecList == Init /\ [][NextList]_vars

\* one caller: names that pass and names that fail is_index_uid_valid
ValidReqs ==
    {Req("Create", EmptyName, 0), Req("Create", BadName, 0),
     Req("Create", MixedName, 0), Req("Insert", BadName, UuidX),
     Req("Insert", MixedName, UuidX), Req("Get", BadName, 0),
     Req("Delete", MixedName, 0), Req("List", <<>>, 0)}

NextValid == call({1}, ValidReqs) \/ await \/ run

SpecValid == Init /\ [][NextValid]_vars

\* two concurrent callers, the first of which may give up waiting for its reply
abandon == drop_receiver(1)

NextAbandon == call({1, 2}, RaceReqs) \/ await \/ abandon \/ run

SpecAbandon == Init /\ [][NextAbandon]_vars

\* two concurrent callers that wait for every reply, a store that may fail, and
\* an actor task and callers that are scheduled as long as they can run
FairReqs == RaceReqs \cup {Req("Create", BadName, 0)}

NextFair ==
    \/ calls < LiveCalls /\ call({1, 2}, FairReqs)
    \/ await \/ run \/ run_Fault

SpecFair ==
    /\ Init /\ [][NextFair]_vars
    /\ WF_vars(run \/ run_Fault)
    /\ \A c \in Callers : WF_vars(receiver_await(c))

\* two concurrent callers and an actor task that may be ended at any moment;
\* a caller whose receiver.await can return is scheduled
closed == \E c \in Callers : receiver_closed(c)

NextKill ==
    \/ calls < LiveCalls /\ call({1, 2}, RaceReqs)
    \/ await \/ closed \/ run \/ kill

SpecKill ==
    /\ Init /\ [][NextKill]_vars
    /\ \A c \in Callers : WF_vars(receiver_await(c)) /\ WF_vars(receiver_closed(c))

\* one caller, two names and a name is_index_uid_valid refuses, and a store
\* that may fail
FaultReqs ==
    {Req("Create", NameA, 0), Req("Get", NameA, 0), Req("Delete", NameA, 0),
     Req("List", <<>>, 0), Req("Insert", NameB, UuidX), Req("Insert", BadName, UuidY)}

NextFault == call({1}, FaultReqs) \/ await \/ run \/ run_Fault

SpecFault == Init /\ [][NextFault]_vars

\* two callers, the first of which may drop a call it awaits, and every task
\* may drop its handle; the actor task is scheduled as long as it can run
drop == \E c \in Callers : drop_handle(c)

NextDrop ==
    \/ calls < LiveCalls /\ call({1, 2}, RaceReqs)
    \/ await \/ abandon \/ drop \/ run \/ run_exit

SpecDrop ==
    /\ Init /\ [][NextDrop]_vars
    /\ WF_vars(run \/ run_exit)

\* The registry at a moment when ChannelCapacity get calls of other tasks, which
\* have since dropped them, fill the inbox and the actor has not yet taken one.
InitFull ==
    /\ store = EmptyDb
    /\ inbox = [i \in 1..ChannelCapacity |->
                   [op |-> "Get", name |-> NameA, uuid |-> 0, ret |-> 0, id |-> i]]
    /\ apc = "recv"
    /\ cur = NoMsg
    /\ pc = [c \in Callers |-> "idle"]
    /\ outbox = [c \in Callers |-> NoMsg]
    /\ ret = [c \in Callers |-> None]
    /\ minted = {}
    /\ calls = 0
    /\ hist = <<>>

\* two callers that make their calls on the full inbox; the actor task, the
\* suspended senders and the awaiting callers are scheduled, a suspended sender
\* being served whenever room keeps coming
resume == \E c \in Callers : send_resume(c)

NextFull ==
    \/ calls < LiveCalls /\ call({1, 2}, RaceReqs)
    \/ resume \/ await \/ run

SpecFull ==
    /\ InitFull /\ [][NextFull]_vars
    /\ WF_vars(run)
    /\ \A c \in Callers : SF_vars(send_resume(c)) /\ WF_vars(receiver_await(c))

----------------------------------------------------------------------------
(* Reading the history. *)

\* the table as the i-th handled request left it
After(i) == IF i < Len(hist) THEN hist[i + 1].db ELSE store

\* the i-th handled request is op on name n
Is(i, op, n) == hist[i].op = op /\ hist[i].name = n

\* no handled request strictly between the i-th and the j-th is one of ops on n
Quiet(i, j, ops, n) ==
    \A k \in (i + 1)..(j - 1) : ~(hist[k].op \in ops /\ hist[k].name = n)

\* the i-th handled request bound a Uuid to its name: a create or an insert
\* that was answered Ok
Binds(i) == hist[i].op \in {"Create", "Insert"} /\ hist[i].reply.tag = "Ok"

\* the Uuid the i-th handled request bound: the one create minted and answered
\* with, or the one insert was given
Bound(i) == IF hist[i].op = "Create" THEN hist[i].reply.val ELSE hist[i].uuid

----------------------------------------------------------------------------
\* C1: when the callers' create calls for one valid name are the first N
\* requests the actor handles on the fresh registry, in whatever order they were
\* enqueued, exactly one of them is answered Ok and the other N-1 are answered
\* NameAlreadyExist, and a get of that name handled next is answered with the
\* Uuid of the one Ok.
CreateRaceOneWinner ==
    \A N \in 1..Len(hist) :
        LET n == hist[1].name
            wins == {i \in 1..N : hist[i].reply.tag = "Ok"}
        IN (is_index_uid_valid(n) /\ \A i \in 1..N : Is(i, "Create", n))
           => /\ Cardinality(wins) = 1
              /\ \A i \in (1..N) \ wins : hist[i].reply = Err("NameAlreadyExist", Unit)
              /\ \A w \in wins :
                   /\ Len(hist) = N => handle_get(store, n).res = hist[w].reply
                   /\ (Len(hist) > N /\ Is(N + 1, "Get", n))
                         => hist[N + 1].reply = hist[w].reply

\* every caller has a create of the same name under way at once, and all of
\* them have been answered
CreateRaceWitness ==
    /\ Len(hist) = NumCallers
    /\ NumCallers > 1
    /\ \A i \in 1..Len(hist) : Is(i, "Create", NameA)
    /\ \A c \in Callers : pc[c] = "await" /\ ret[c] # None
    /\ \E c \in Callers : ret[c][1].tag = "Ok"
    /\ \E c \in Callers : ret[c][1].tag = "NameAlreadyExist"

----------------------------------------------------------------------------
\* C2: in every reachable state no two names of the table hold the same Uuid.
StoreInjective ==
    \A n1 \in DOMAIN store, n2 \in DOMAIN store :
        n1 # n2 => store[n1] # store[n2]

----------------------------------------------------------------------------
\* C3: a create of the empty name is answered BadlyFormatted, opens no
\* transaction and leaves no entry for the empty name.
EmptyNameRejected ==
    /\ \A i \in 1..Len(hist) :
          Is(i, "Create", EmptyName)
             => /\ hist[i].reply = Err("BadlyFormatted", EmptyName)
                /\ hist[i].txn = "none"
    /\ EmptyName \notin DOMAIN store

----------------------------------------------------------------------------
\* C4 as stated: for every name n, whatever its characters, when create(n) is
\* handled with no entry for n and create(n) is handled next, the first is
\* answered Ok(u), the second NameAlreadyExist with the table unchanged, and a
\* get(n) handled next is answered Ok(u).
CreateTwiceAnyName ==
    \A i \in 1..Len(hist) :
        LET n == hist[i].name IN
        (/\ Is(i, "Create", n)
         /\ n \notin DOMAIN hist[i].db
         /\ i + 1 <= Len(hist)
         /\ Is(i + 1, "Create", n))
        => /\ hist[i].reply.tag = "Ok"
           /\ hist[i + 1].reply = Err("NameAlreadyExist", Unit)
           /\ After(i + 1) = hist[i + 1].db
           /\ (i + 2 <= Len(hist) /\ Is(i + 2, "Get", n))
                 => hist[i + 2].reply = hist[i].reply

\* C4, amended: the same for every non-empty name n whose characters all pass
\* is_index_uid_valid.
CreateTwiceConflict ==
    \A i \in 1..Len(hist) :
        LET n == hist[i].name IN
        (/\ Is(i, "Create", n)
         /\ n # <<>> /\ is_index_uid_valid(n)
         /\ n \notin DOMAIN hist[i].db
         /\ i + 1 <= Len(hist)
         /\ Is(i + 1, "Create", n))
        => /\ hist[i].reply.tag = "Ok"
           /\ hist[i + 1].reply = Err("NameAlreadyExist", Unit)
           /\ After(i + 1) = hist[i + 1].db
           /\ (i + 2 <= Len(hist) /\ Is(i + 2, "Get", n))
                 => hist[i + 2].reply = hist[i].reply

\* create, create, get of one name have been handled in a row: Ok, conflict, Ok
CreateTwiceWitness ==
    \E i \in 1..(Len(hist) - 2) :
        /\ Is(i, "Create", NameA) /\ NameA \notin DOMAIN hist[i].db
        /\ Is(i + 1, "Create", NameA) /\ hist[i + 1].reply.tag = "NameAlreadyExist"
        /\ Is(i + 2, "Get", NameA) /\ hist[i + 2].reply.tag = "Ok"

----------------------------------------------------------------------------
\* C5: when create(n) of a valid name n with no entry is answered Ok(u) and a
\* get(n) is handled later with no delete(n) and no insert(n, _) handled in
\* between, the get is answered Ok(u).
CreateThenGet ==
    \A i \in 1..Len(hist), j \in 1..Len(hist) :
        LET n == hist[i].name IN
        (/\ i < j
         /\ Is(i, "Create", n) /\ is_index_uid_valid(n)
         /\ n \notin DOMAIN hist[i].db
         /\ hist[i].reply.tag = "Ok"
         /\ Is(j, "Get", n)
         /\ Quiet(i, j, {"Delete", "Insert"}, n))
        => hist[j].reply = hist[i].reply

\* a create was answered Ok, other requests were handled, then the get
CreateThenGetWitness ==
    \E i \in 1..Len(hist), j \in 1..Len(hist) :
        /\ i + 1 < j
        /\ Is(i, "Create", NameA) /\ hist[i].reply.tag = "Ok"
        /\ Is(j, "Get", NameA) /\ hist[j].reply.tag = "Ok"
        /\ Quiet(i, j, {"Delete", "Insert"}, NameA)

----------------------------------------------------------------------------
\* C6 as stated: for every name n, whatever its characters, when create(n) is
\* handled with no entry for n and delete(n) is handled next, the delete is
\* answered Ok(u) with the u of the create and leaves no entry for n, and a
\* get(n) handled next is answered UnexistingIndex(n).
CreateDeleteGetAnyName ==
    \A i \in 1..Len(hist) :
        LET n == hist[i].name IN
        (/\ Is(i, "Create", n)
         /\ n \notin DOMAIN hist[i].db
         /\ i + 1 <= Len(hist)
         /\ Is(i + 1, "Delete", n))
        => /\ hist[i].reply.tag = "Ok"
           /\ hist[i + 1].reply = hist[i].reply
           /\ n \notin DOMAIN After(i + 1)
           /\ (i + 2 <= Len(hist) /\ Is(i + 2, "Get", n))
                 => hist[i + 2].reply = Err("UnexistingIndex", n)

\* C6, amended: the same for every non-empty name n whose characters all pass
\* is_index_uid_valid.
CreateDeleteGet ==
    \A i \in 1..Len(hist) :
        LET n == hist[i].name IN
        (/\ Is(i, "Create", n)
         /\ n # <<>> /\ is_index_uid_valid(n)
         /\ n \notin DOMAIN hist[i].db
         /\ i + 1 <= Len(hist)
         /\ Is(i + 1, "Delete", n))
        => /\ hist[i].reply.tag = "Ok"
           /\ hist[i + 1].reply = hist[i].reply
           /\ n \notin DOMAIN After(i + 1)
           /\ (i + 2 <= Len(hist) /\ Is(i + 2, "Get", n))
                 => hist[i + 2].reply = Err("UnexistingIndex", n)

\* create, delete, get of one name have been handled in a row
CreateDeleteGetWitness ==
    \E i \in 1..(Len(hist) - 2) :
        /\ Is(i, "Create", NameA) /\ hist[i].reply.tag = "Ok"
        /\ Is(i + 1, "Delete", NameA) /\ hist[i + 1].reply.tag = "Ok"
        /\ Is(i + 2, "Get", NameA) /\ hist[i + 2].reply.tag = "UnexistingIndex"

----------------------------------------------------------------------------
\* C7: a get or a delete of a name that has no entry when it is handled is
\* answered UnexistingIndex with that very name and leaves the table as it was.
AbsentNotFound ==
    \A i \in 1..Len(hist) :
        (hist[i].op \in {"Get", "Delete"} /\ hist[i].name \notin DOMAIN hist[i].db)
        => /\ hist[i].reply = Err("UnexistingIndex", hist[i].name)
           /\ After(i) = hist[i].db

\* a name never created was looked up, and a name already deleted was deleted
\* again
AbsentNotFoundWitness ==
    /\ \E i \in 1..Len(hist) : Is(i, "Get", BadName) /\ hist[i].db = EmptyDb
    /\ \E i \in 1..Len(hist), j \in 1..Len(hist) :
          /\ i < j
          /\ Is(i, "Delete", NameA) /\ hist[i].reply.tag = "Ok"
          /\ Is(j, "Delete", NameA) /\ hist[j].reply.tag = "UnexistingIndex"

----------------------------------------------------------------------------
\* C8: an insert(n, id) of a valid name n is answered Ok whether or not n has
\* an entry, never NameAlreadyExist; a get(n) handled after it, with no other
\* insert(n, _) and no delete(n) handled in between, is answered Ok(id): the
\* last insert wins.
InsertThenGet ==
    \A i \in 1..Len(hist) :
        LET n == hist[i].name IN
        (hist[i].op = "Insert" /\ is_index_uid_valid(n))
        => /\ hist[i].reply = Ok(Unit)
           /\ \A j \in (i + 1)..Len(hist) :
                 (Is(j, "Get", n) /\ Quiet(i, j, {"Delete", "Insert"}, n))
                 => hist[j].reply = Ok(hist[i].uuid)

\* insert(a, X), get(a), insert(a, Y), get(a) have been handled in a row
InsertThenGetWitness ==
    /\ Len(hist) = 4
    /\ Is(1, "Insert", NameA) /\ hist[1].uuid = UuidX
    /\ Is(2, "Get", NameA) /\ hist[2].reply = Ok(UuidX)
    /\ Is(3, "Insert", NameA) /\ hist[3].uuid = UuidY
    /\ Is(4, "Get", NameA) /\ hist[4].reply = Ok(UuidY)

----------------------------------------------------------------------------
\* C9: a create or an insert of a name with a character that is no ASCII
\* letter, digit, '-' or '_' is answered BadlyFormatted with that name, opens
\* no transaction and leaves the table as it was; and in every reachable state
\* every key of the table is made of such characters only.
InvalidNameRejected ==
    LET allowed == {45, 95} \cup (48..57) \cup (65..90) \cup (97..122)
        wellformed(n) == \A k \in 1..Len(n) : n[k] \in allowed
    IN /\ \A i \in 1..Len(hist) :
             (hist[i].op \in {"Create", "Insert"} /\ ~wellformed(hist[i].name))
             => /\ hist[i].reply = Err("BadlyFormatted", hist[i].name)
                /\ hist[i].txn = "none"
                /\ After(i) = hist[i].db
       /\ \A n \in DOMAIN store : wellformed(n)

\* "bad name!" was refused to a create and to an insert, beside an entry that
\* was accepted
InvalidNameWitness ==
    /\ \E i \in 1..Len(hist) :
          Is(i, "Create", BadName) /\ hist[i].reply.tag = "BadlyFormatted"
    /\ \E i \in 1..Len(hist) :
          Is(i, "Insert", BadName) /\ hist[i].reply.tag = "BadlyFormatted"
    /\ MixedName \in DOMAIN store

----------------------------------------------------------------------------
\* C10: a list is answered Ok with exactly the entries of the table it finds:
\* as many pairs as the table has names, every name once, each with the Uuid
\* stored for it (so none for a deleted name, and the empty sequence for the
\* empty table); and after the creates of "a", "b" and "c" on the fresh registry
\* it is answered with three pairs, of the names a, b, c and of three different
\* Uuids.
ListExact ==
    /\ \A i \in 1..Len(hist) :
          hist[i].op = "List"
          => LET db == hist[i].db
                 v == hist[i].reply.val
             IN /\ hist[i].reply.tag = "Ok"
                /\ Len(v) = Cardinality(DOMAIN db)
                /\ {v[k][1] : k \in 1..Len(v)} = DOMAIN db
                /\ \A k \in 1..Len(v) : db[v[k][1]] = as_bytes(v[k][2])
    /\ (/\ Len(hist) >= 4
        /\ \A k \in 1..3 : hist[k].op = "Create"
        /\ {hist[k].name : k \in 1..3} = {NameA, NameB, NameC}
        /\ hist[4].op = "List")
       => LET v == hist[4].reply.val
          IN /\ Len(v) = 3
             /\ {v[k][1] : k \in 1..3} = {NameA, NameB, NameC}
             /\ \A k \in 1..3, l \in 1..3 : k # l => v[k][2] # v[l][2]

\* "a", "b", "c" were created on the fresh registry and then listed
ListWitness ==
    /\ Len(hist) = 4
    /\ \A k \in 1..3 : hist[k].op = "Create" /\ hist[k].reply.tag = "Ok"
    /\ {hist[k].name : k \in 1..3} = {NameA, NameB, NameC}
    /\ hist[4].op = "List"
    /\ Len(hist[4].reply.val) = 3

-----------------------------------------------------------------------------
\* C11: once a create or an insert has bound a Uuid to a name, no request
\* handled afterwards binds that Uuid to another name, whether or not the first
\* name was deleted in between.
UuidNeverRebound ==
    \A i \in 1..Len(hist), j \in 1..Len(hist) :
        (i < j /\ Binds(i) /\ Binds(j) /\ Bound(i) = Bound(j))
            => hist[i].name = hist[j].name

-----------------------------------------------------------------------------
\* C12: the replies of the handled requests, the reply each caller is handed
\* and the table are those of a sequential map from names to Uuids to which the
\* requests are applied one at a time in the order the actor dequeued them: a
\* create of a well-formed absent name adds the Uuid it answers with, a Uuid no
\* name of the map holds, and is a conflict on a present name; get and delete
\* answer the mapped Uuid or not-found; list answers the whole map in key order;
\* insert maps the name to the given Uuid. The table changes only in the step
\* that sends a reply, and that step hands the reply to the caller whose
\* message was dequeued and to nobody else.
Linearized ==
    /\ [](LET wellformed(n) ==
                  \A k \in 1..Len(n) :
                      \/ n[k] \in 48..57 \/ n[k] \in 65..90 \/ n[k] \in 97..122
                      \/ n[k] = 45 \/ n[k] = 95
              adds(m, r) ==
                  \/ r.op = "Insert" /\ wellformed(r.name)
                  \/ r.op = "Create" /\ wellformed(r.name) /\ r.name \notin DOMAIN m
              value(r) == IF r.op = "Create" THEN r.reply.val ELSE r.uuid
              apply(m, r) ==
                  IF adds(m, r)
                  THEN [n \in DOMAIN m \cup {r.name} |->
                            IF n = r.name THEN value(r) ELSE m[n]]
                  ELSE IF r.op = "Delete"
                       THEN [n \in DOMAIN m \ {r.name} |-> m[n]]
                       ELSE m
              listing(m) ==
                  LET ks == keys_in_order(DOMAIN m)
                  IN  [k \in 1..Len(ks) |-> <<ks[k], m[ks[k]]>>]
              answers(m, r) ==
                  CASE r.op = "Create" ->
                          IF ~wellformed(r.name)
                          THEN r.reply = Err("BadlyFormatted", r.name)
                          ELSE IF r.name \in DOMAIN m
                               THEN r.reply = Err("NameAlreadyExist", Unit)
                               ELSE /\ r.reply.tag = "Ok"
                                    /\ \A n \in DOMAIN m : m[n] # r.reply.val
                    [] r.op = "Insert" ->
                          IF ~wellformed(r.name)
                          THEN r.reply = Err("BadlyFormatted", r.name)
                          ELSE r.reply = Ok(Unit)
                    [] r.op \in {"Get", "Delete"} ->
                          IF r.name \in DOMAIN m
                          THEN r.reply = Ok(m[r.name])
                          ELSE r.reply = Err("UnexistingIndex", r.name)
                    [] r.op = "List" -> r.reply = Ok(listing(m))
              map[k \in 0..Len(hist)] ==
                  IF k = 0 THEN << >> ELSE apply(map[k - 1], hist[k])
              final == map[Len(hist)]
          IN  /\ \A k \in 1..Len(hist) : answers(map[k - 1], hist[k])
              /\ DOMAIN store = DOMAIN final
              /\ \A n \in DOMAIN store : from_slice(store[n]) = Ok(final[n]))
    /\ [][IF hist' # hist
          THEN /\ apc = "handle"
               /\ hist' = Append(hist, hist'[Len(hist')])
               /\ hist'[Len(hist')].id = cur.id
               /\ hist'[Len(hist')].op = cur.op
               /\ hist'[Len(hist')].name = cur.name
               /\ hist'[Len(hist')].uuid = cur.uuid
               /\ ret'[cur.ret] = Some(hist'[Len(hist')].reply)
               /\ \A c \in Callers \ {cur.ret} : ret'[c] = ret[c]
          ELSE /\ store' = store
               /\ \A c \in Callers : ret'[c] \in {ret[c], None}]_vars

\* two requests of different callers were in the inbox together and both have
\* been handled, the second one finding what the first one wrote
LinearizedWitness ==
    /\ Len(hist) >= 2
    /\ hist[1].op = "Create" /\ hist[1].reply.tag = "Ok"
    /\ hist[2].op \in {"Get", "Delete"} /\ hist[2].reply = Ok(hist[1].reply.val)
    /\ \A c \in Callers : ret[c] # None

-----------------------------------------------------------------------------
\* C13: a request whose caller had dropped the receiver before the reply was
\* sent is handled like any other: a create of a well-formed absent name, an
\* insert on a well-formed name and a delete of a present name commit, the
\* table they leave holds the change, and a get of the name handled later, with
\* no create, delete or insert on the name in between, is answered from that
\* change; nothing is handed to the caller that left, and the actor is
\* receiving or handling, not stopped.
AbandonedStillDone ==
    /\ \A i \in 1..Len(hist) :
          LET r == hist[i]
              n == r.name
              gets == {k \in (i + 1)..Len(hist) :
                          Is(k, "Get", n) /\ Quiet(i, k, {"Create", "Delete", "Insert"}, n)}
          IN  ~r.heard =>
              /\ (r.op = "Create" /\ is_index_uid_valid(n) /\ n \notin DOMAIN r.db)
                    => /\ r.reply.tag = "Ok" /\ r.txn = "commit"
                       /\ n \in DOMAIN After(i)
                       /\ After(i)[n] = as_bytes(r.reply.val)
                       /\ \A k \in gets : hist[k].reply = Ok(r.reply.val)
              /\ (r.op = "Insert" /\ is_index_uid_valid(n))
                    => /\ r.reply = Ok(Unit) /\ r.txn = "commit"
                       /\ n \in DOMAIN After(i)
                       /\ After(i)[n] = as_bytes(r.uuid)
                       /\ \A k \in gets : hist[k].reply = Ok(r.uuid)
              /\ (r.op = "Delete" /\ n \in DOMAIN r.db)
                    => /\ r.reply.tag = "Ok" /\ r.txn = "commit"
                       /\ n \notin DOMAIN After(i)
                       /\ \A k \in gets : hist[k].reply = Err("UnexistingIndex", n)
    /\ \A c \in Callers : pc[c] = "cancelled" => ret[c] = None
    /\ apc \in {"recv", "handle"}

\* a create whose caller had left was handled, and a get the other caller sent
\* afterwards has been answered with the Uuid that create assigned
AbandonedWitness ==
    \E i \in 1..Len(hist), k \in 1..Len(hist) :
        /\ i < k
        /\ hist[i].op = "Create" /\ ~hist[i].heard /\ hist[i].reply.tag = "Ok"
        /\ hist[k].op = "Get" /\ hist[k].heard /\ hist[k].id > hist[i].id
        /\ hist[k].reply = Ok(hist[i].reply.val)
        /\ pc[1] = "cancelled"
-----------------------------------------------------------------------------
\* C14: with the actor task and the waiting callers scheduled fairly, a caller
\* that awaits a reply eventually has its call return, whatever the replies of
\* the requests handled before it (BadlyFormatted, UnexistingIndex,
\* NameAlreadyExist, a storage error); a reply is sent only to a caller that
\* awaits and holds none, it is the reply recorded for the message that caller
\* sent, and it is an outcome of that message's operation on the table the
\* actor found; no message is handled twice, and the actor never stops.
EveryRequestAnswered ==
    /\ \A c \in Callers : (pc[c] = "await") ~> (pc[c] = "idle")
    /\ [][hist' # hist =>
            LET e == hist'[Len(hist')]
                c == cur.ret
                n == e.name
                failed == e.reply = Err("Heed", Unit)
            IN  /\ pc[c] = "await" /\ ret[c] = None
                /\ ret'[c] = Some(e.reply)
                /\ \A d \in Callers \ {c} : ret'[d] = ret[d]
                /\ e.id = cur.id /\ e.op = cur.op /\ n = cur.name /\ e.uuid = cur.uuid
                /\ apc' = "recv"
                /\ CASE e.op = "Create" ->
                          IF ~is_index_uid_valid(n)
                          THEN e.reply = Err("BadlyFormatted", n)
                          ELSE \/ failed
                               \/ n \in DOMAIN e.db /\ e.reply = Err("NameAlreadyExist", Unit)
                               \/ n \notin DOMAIN e.db /\ e.reply.tag = "Ok"
                     [] e.op = "Insert" ->
                          IF ~is_index_uid_valid(n)
                          THEN e.reply = Err("BadlyFormatted", n)
                          ELSE failed \/ e.reply = Ok(Unit)
                     [] e.op \in {"Get", "Delete"} ->
                          \/ failed
                          \/ n \in DOMAIN e.db /\ e.reply = from_slice(e.db[n])
                          \/ n \notin DOMAIN e.db /\ e.reply = Err("UnexistingIndex", n)
                     [] e.op = "List" ->
                          \/ failed
                          \/ /\ e.reply.tag = "Ok"
                             /\ Len(e.reply.val) = Cardinality(DOMAIN e.db)]_vars
    /\ [](/\ \A i \in 1..Len(hist), j \in 1..Len(hist) :
                hist[i].id = hist[j].id => i = j
          /\ apc \in {"recv", "handle"})

\* the first request handled failed in the storage layer, the request handled
\* after it was answered Ok, and both calls have returned
AnsweredAfterErrorWitness ==
    /\ Len(hist) = 2
    /\ hist[1].reply = Err("Heed", Unit)
    /\ hist[2].reply.tag = "Ok"
    /\ \A c \in Callers : pc[c] = "idle" /\ ret[c] = None

-----------------------------------------------------------------------------
\* C15: once the actor task is ended, a caller that awaits a reply that was not
\* sent never gets a value and eventually panics, and a call made afterwards
\* goes to await with no reply and no message queued, so it ends the same way;
\* no call returns to its caller except by taking a reply the actor sent.
DeadActorFailsLoudly ==
    /\ \A c \in Callers :
          (apc = "killed" /\ pc[c] = "await" /\ ret[c] = None) ~> (pc[c] = "panicked")
    /\ [][\A c \in Callers :
            /\ (apc = "killed" /\ pc[c] = "await" /\ ret[c] = None)
                  => pc'[c] \in {"await", "panicked"} /\ ret'[c] = None
            /\ (apc = "killed" /\ pc[c] = "idle" /\ pc'[c] # "idle")
                  => pc'[c] = "await" /\ ret'[c] = None /\ inbox' = <<>>
            /\ (pc[c] = "await" /\ pc'[c] = "idle") => ret[c] # None
            /\ pc[c] = "panicked" => pc'[c] = "panicked"]_vars

\* the actor task was ended with one request in the inbox, the other caller
\* made its call afterwards, and both calls have panicked
DeadActorWitness ==
    /\ apc = "killed"
    /\ calls = 2
    /\ hist = <<>>
    /\ \A c \in {1, 2} : pc[c] = "panicked"

-----------------------------------------------------------------------------
\* C16: the actor handles the messages in the order in which they entered the
\* inbox, whatever their kinds: the i-th request handled is the i-th message
\* that entered, the message in hand is the next one after those handled, and
\* the messages still queued follow it in their order of entry; so when the
\* actor starts on a message, every message that entered before it has had its
\* store operation done and its reply sent.
FifoOrder ==
    LET inhand == IF apc = "handle" THEN 1 ELSE 0 IN
    /\ \A i \in 1..Len(hist) : hist[i].id = i
    /\ apc = "handle" => cur.id = Len(hist) + 1
    /\ \A j \in 1..Len(inbox) : inbox[j].id = Len(hist) + inhand + j

\* one request has been answered, the actor is handling the next while a third
\* of another kind waits in the inbox
FifoWitness ==
    /\ apc = "handle"
    /\ Len(hist) >= 1 /\ Len(inbox) >= 1
    /\ hist[Len(hist)].op # cur.op
    /\ cur.op = "Get" /\ inbox[1].op = "Create"

-----------------------------------------------------------------------------
\* C17: the actor has a store operation under way only for the one message it
\* has in hand: it takes a message from the inbox only when it has none in hand
\* and is not in a handler; the table changes only in the step that ends the
\* handler of the message in hand, by that handler's one committed transaction;
\* and every message that entered is handled, in hand or queued, none twice.
OneStoreOperation ==
    /\ [](/\ apc = "handle" <=> cur # NoMsg
          /\ Entered = calls)
    /\ [][/\ (cur' # cur /\ cur' # NoMsg) => (apc = "recv" /\ cur = NoMsg)
          /\ store' # store =>
                /\ apc = "handle" /\ apc' = "recv" /\ cur' = NoMsg
                /\ hist' = Append(hist, hist'[Len(hist')])
                /\ hist'[Len(hist')].id = cur.id
                /\ hist'[Len(hist')].txn = "commit"]_vars

\* a create is in its handler while an insert of another caller waits in the
\* inbox
OneStoreOperationWitness ==
    /\ apc = "handle" /\ cur.op = "Create"
    /\ Len(inbox) >= 1 /\ inbox[1].op = "Insert"
    /\ inbox[1].ret # cur.ret

-----------------------------------------------------------------------------
\* C18: a handled request leaves every entry under another name as it found
\* it; get and list leave the whole table as they found it; a request answered
\* with an error (BadlyFormatted, NameAlreadyExist, UnexistingIndex, a storage
\* error) leaves the whole table as it found it and commits nothing; a create
\* answered Ok committed once and added the entry of its name, absent before,
\* with the Uuid it answers; a delete answered Ok committed once and removed the
\* entry of its name; an insert answered Ok committed once and left its name
\* holding the given Uuid.
FrameEffect ==
    \A i \in 1..Len(hist) :
        LET r == hist[i]
            n == r.name
            before == r.db
            after == After(i)
            ok == r.reply.tag = "Ok"
        IN  /\ \A k \in (DOMAIN before \cup DOMAIN after) \ {n} :
                  k \in DOMAIN before /\ k \in DOMAIN after /\ after[k] = before[k]
            /\ r.op \in {"Get", "List"} => after = before /\ r.txn # "commit"
            /\ ~ok => after = before /\ r.txn # "commit"
            /\ (ok /\ r.op = "Create")
                  => /\ r.txn = "commit"
                     /\ n \notin DOMAIN before /\ n \in DOMAIN after
                     /\ after[n] = as_bytes(r.reply.val)
            /\ (ok /\ r.op = "Delete")
                  => /\ r.txn = "commit"
                     /\ n \in DOMAIN before /\ n \notin DOMAIN after
            /\ (ok /\ r.op = "Insert")
                  => /\ r.txn = "commit"
                     /\ n \in DOMAIN after /\ after[n] = as_bytes(r.uuid)

\* with two names in the table a delete of one of them was answered Ok, and a
\* later insert on the other failed in the storage layer
FrameWitness ==
    \E i \in 1..Len(hist), j \in 1..Len(hist) :
        /\ i < j
        /\ hist[i].op = "Delete" /\ hist[i].reply.tag = "Ok"
        /\ Cardinality(DOMAIN hist[i].db) = 2
        /\ hist[j].op = "Insert" /\ hist[j].reply = Err("Heed", Unit)
        /\ hist[j].name \in DOMAIN hist[j].db

-----------------------------------------------------------------------------
\* C19: the actor has left its loop only when every handle is dropped, the
\* inbox is empty and every message that entered the inbox has been handled;
\* it leaves by the loop's break, from inbox.recv(), not by being ended; and
\* with the actor task scheduled fairly, once every handle is dropped the actor
\* eventually leaves the loop.
ExitsWhenClosed ==
    /\ [](/\ apc = "exited" =>
                /\ \A c \in Callers : pc[c] = "gone"
                /\ inbox = <<>> /\ cur = NoMsg
                /\ Len(hist) = calls
                /\ \A i \in 1..Len(hist) : hist[i].id = i
          /\ apc # "killed")
    /\ [][apc # "exited" /\ apc' = "exited" =>
              /\ apc = "recv" /\ inbox = <<>>
              /\ \A c \in Callers : pc[c] = "gone"]_vars
    /\ (\A c \in Callers : pc[c] = "gone") ~> (apc = "exited")

\* the actor has left its loop after handling two messages, the first of them
\* for a caller that had dropped its call
ExitWitness ==
    /\ apc = "exited"
    /\ Len(hist) = 2
    /\ ~hist[1].heard /\ hist[2].heard

-----------------------------------------------------------------------------
\* C20: the inbox never holds more than ChannelCapacity messages; a sender
\* suspended on the full inbox keeps its message, and when it goes on the
\* message is put at the end of the inbox; with the actor task, the senders and
\* the awaiting callers scheduled fairly, a suspended sender's call eventually
\* returns with the reply to its message.
BoundedInbox ==
    /\ [](/\ Len(inbox) <= ChannelCapacity
          /\ \A c \in Callers :
                pc[c] = "send" => outbox[c].op # "None" /\ outbox[c].ret = c)
    /\ [][\A c \in Callers :
            /\ (pc[c] = "send" /\ pc'[c] # "send")
                  => /\ pc'[c] = "await"
                     /\ Len(inbox) < ChannelCapacity
                     /\ inbox' = Append(inbox, Stamp(outbox[c], Entered + 1))
            /\ (pc[c] = "idle" /\ pc'[c] = "send")
                  => Len(inbox) = ChannelCapacity /\ inbox' = inbox
            /\ (pc[c] = "await" /\ ret[c] = None /\ ret'[c] # None)
                  => /\ cur.ret = c /\ cur.id > ChannelCapacity
                     /\ hist'[Len(hist')].id = cur.id
                     /\ ret'[c] = Some(hist'[Len(hist')].reply)
            /\ (pc[c] = "await" /\ pc'[c] = "idle") => ret[c] # None]_vars
    /\ \A c \in Callers : (pc[c] = "send") ~> (pc[c] = "idle")

\* the actor has taken a message from the full inbox, one caller's message has
\* filled the inbox again and the other caller is suspended with its create
FullWitness ==
    /\ Len(inbox) = ChannelCapacity
    /\ Len(hist) >= 1
    /\ \E c \in Callers, d \in Callers :
          /\ pc[c] = "send" /\ outbox[c].op = "Create"
          /\ pc[d] = "await" /\ inbox[ChannelCapacity].ret = d

====
